---------------------------- MODULE Spec2Model ----------------------------
(***************************************************************************)
(* Model of the soc-topgen-ui backend: the FlooNoC configuration validator *)
(* (backend/validators/config_validator.py), the Flask request handlers    *)
(* that call it (backend/app.py) and the floogen runner with its job       *)
(* registry (backend/floogen_runner.py).                                   *)
(*                                                                         *)
(* Python strings that the code inspects character by character (address   *)
(* literals) are sequences of one-character strings; names are strings.    *)
(* A mapping with optional keys is a record whose DOMAIN holds the keys    *)
(* that are present.                                                       *)
(***************************************************************************)
EXTENDS Integers, Sequences, FiniteSets, TLC

VARIABLES
    route,          \* who called: "idle", "direct", "validate", "generate"
    request,        \* the request body (get_json()) or the argument of validate
    pc,             \* position inside the handler / validate / run
    config_dict,    \* validate: the parsed document
    schema_errors,  \* validate: result of _validate_schema
    errors,         \* validate: the accumulating error list
    result,         \* what validate produced: a returned pair or a raised exception
    run_result,     \* what runner.run returned to generate_rtl
    response,       \* the HTTP response of the handler
    chimney_names,  \* _validate_semantics: the set built by check 3
    router_names,   \* _validate_semantics: the set built by check 4
    job_id,         \* run: the job id in use
    returncode,     \* run: <<code>> once the floogen process has exited, else <<>>
    jobs,           \* FlooGenRunner.jobs
    generated       \* number of job ids _generate_job_id has made

vars == <<route, request, pc, config_dict, schema_errors, errors, result,
          run_result, response, chimney_names, router_names, job_id, returncode,
          jobs, generated>>

(***************************************************************************)
(* Python values                                                           *)
(***************************************************************************)
\* Python's None, as returned by dict.get for an absent key.
None == "None"

\* dict.get(key, default)
Get(d, key, default) == IF key \in DOMAIN d THEN d[key] ELSE default

\* Python truthiness of an optional string
Truthy(v) == v # None /\ v # ""

\* An address bound is an int or a str: [int |-> n] or [str |-> <<chars>>].
IsStr(addr) == "str" \in DOMAIN addr

RECURSIVE Concat(_)
Concat(ss) == IF ss = <<>> THEN <<>> ELSE Head(ss) \o Concat(Tail(ss))

(***************************************************************************)
(* int(text, 0): Python's integer literal parser with the base taken from  *)
(* the prefix.                                                             *)
(***************************************************************************)
Whitespace == {" ", "\t", "\n"}

RECURSIVE LStrip(_)
LStrip(s) == IF s # <<>> /\ Head(s) \in Whitespace THEN LStrip(Tail(s)) ELSE s

RECURSIVE RStrip(_)
RStrip(s) ==
    IF s # <<>> /\ s[Len(s)] \in Whitespace
    THEN RStrip(SubSeq(s, 1, Len(s) - 1))
    ELSE s

DigitChars ==
    <<"0", "1", "2", "3", "4", "5", "6", "7", "8", "9",
      "a", "b", "c", "d", "e", "f">>
UpperChars ==
    <<"0", "1", "2", "3", "4", "5", "6", "7", "8", "9",
      "A", "B", "C", "D", "E", "F">>

\* the value of a digit character, or 99 when it is no digit at all
DigitVal(c) ==
    IF \E i \in 1..16 : DigitChars[i] = c
    THEN (CHOOSE i \in 1..16 : DigitChars[i] = c) - 1
    ELSE IF \E i \in 1..16 : UpperChars[i] = c
    THEN (CHOOSE i \in 1..16 : UpperChars[i] = c) - 1
    ELSE 99

AllDigits(s, base) == \A i \in 1..Len(s) : DigitVal(s[i]) < base

RECURSIVE DigitsValue(_, _, _)
DigitsValue(s, base, acc) ==
    IF s = <<>> THEN acc
    ELSE DigitsValue(Tail(s), base, acc * base + DigitVal(Head(s)))

ValueError == [ok |-> FALSE, val |-> 0]
Parsed(n) == [ok |-> TRUE, val |-> n]

BasePrefix(s) ==
    IF Len(s) >= 2 /\ s[1] = "0"
    THEN CASE s[2] \in {"x", "X"} -> 16
           [] s[2] \in {"o", "O"} -> 8
           [] s[2] \in {"b", "B"} -> 2
           [] OTHER -> 0
    ELSE 0

\* the unsigned part of a literal
PyMagnitude(s) ==
    LET base == BasePrefix(s)
    IN  IF base # 0
        THEN LET body == SubSeq(s, 3, Len(s))
             IN  IF body # <<>> /\ AllDigits(body, base)
                 THEN Parsed(DigitsValue(body, base, 0))
                 ELSE ValueError
        ELSE IF s # <<>> /\ AllDigits(s, 10)
                /\ (s[1] = "0" => \A i \in 1..Len(s) : s[i] = "0")
             THEN Parsed(DigitsValue(s, 10, 0))
             ELSE ValueError

PyInt0(text) ==
    LET s == RStrip(LStrip(text))
    IN  IF s # <<>> /\ s[1] \in {"+", "-"}
        THEN LET m == PyMagnitude(Tail(s))
             IN  IF m.ok /\ s[1] = "-" THEN Parsed(0 - m.val) ELSE m
        ELSE PyMagnitude(s)

\* str.replace("_", "")
StripUnderscores(s) == SelectSeq(s, LAMBDA c : c # "_")

\* ConfigValidator._parse_addr
_parse_addr(addr) ==
    IF IsStr(addr) THEN PyInt0(StripUnderscores(addr.str)) ELSE Parsed(addr.int)


(***************************************************************************)
(* Error strings.  An f-string is the tuple of its format and the values   *)
(* put into it.                                                            *)
(***************************************************************************)
ErrYaml(e) == <<"YAML parsing error: %s", e>>
ErrSchema(path, message) == <<"%s: %s", path, message>>
ErrProtocol(name, protocol) ==
    <<"Endpoint '%s' references undefined protocol '%s'", name, protocol>>
ErrNoAddrRange(name) == <<"Slave endpoint '%s' must have 'addr_range'", name>>
FmtDupChimney == "Duplicate chimney name: '%s'"
FmtDupRouter == "Duplicate router name: '%s'"
FmtDupEndpoint == "Duplicate endpoint name: '%s'"
ErrDupChimney(name) == <<FmtDupChimney, name>>
ErrDupRouter(name) == <<FmtDupRouter, name>>
ErrDupEndpoint(name) == <<FmtDupEndpoint, name>>
ErrFrom(node) == <<"Connection references undefined 'from' node: '%s'", node>>
ErrTo(node) == <<"Connection references undefined 'to' node: '%s'", node>>
ErrOverlap(name1, name2) ==
    <<"Address range overlap between '%s' and '%s'", name1, name2>>
ErrExport(name) == <<"top.export_axi references undefined endpoint: '%s'", name>>

(***************************************************************************)
(* ConfigValidator._validate_schema.  Draft7Validator.iter_errors is the   *)
(* jsonschema library: what it yields for a document is carried by the     *)
(* document as iter_errors, a sequence of [path, message].                 *)
(***************************************************************************)
\* " -> ".join(str(p) for p in error.path) if error.path else "root"
PathText(path) == IF path # <<>> THEN path ELSE <<"root">>

RECURSIVE SchemaLoop(_, _)
SchemaLoop(found, errs) ==
    IF found = <<>> THEN errs
    ELSE SchemaLoop(Tail(found),
                    Append(errs, ErrSchema(PathText(Head(found).path),
                                           Head(found).message)))

_validate_schema(config) == SchemaLoop(config.iter_errors, <<>>)

(***************************************************************************)
(* ConfigValidator._validate_semantics, check by check.  Every loop is the *)
(* code's loop: it walks the list front to back and appends to errs.       *)
(***************************************************************************)
Protocols(config) == Get(config, "protocols", {})
Endpoints(config) == Get(config, "endpoints", <<>>)
Routers(config) == Get(config, "routers", <<>>)
Connections(config) == Get(config, "connections", <<>>)

\* Check 1: protocol references in endpoints
RECURSIVE Check1Loop(_, _, _)
Check1Loop(eps, protocols, errs) ==
    IF eps = <<>> THEN errs
    ELSE LET ep == Head(eps)
             protocol == Get(ep, "protocol", None)
         IN  Check1Loop(Tail(eps), protocols,
                 IF Truthy(protocol) /\ protocol \notin protocols
                 THEN Append(errs, ErrProtocol(ep.name, protocol))
                 ELSE errs)

\* Check 2: slave endpoints must have addr_range
RECURSIVE Check2Loop(_, _)
Check2Loop(eps, errs) ==
    IF eps = <<>> THEN errs
    ELSE LET ep == Head(eps)
         IN  Check2Loop(Tail(eps),
                 IF ep.type = "slave" /\ "addr_range" \notin DOMAIN ep
                 THEN Append(errs, ErrNoAddrRange(ep.name))
                 ELSE errs)

\* The loop of checks 3, 4 and 5: a seen-set, and an error (the f-string fmt
\* with the name in it) for a name that is already in the set.  Yields the
\* set and the errors.
RECURSIVE DupLoopOncePerName(_, _, _, _, _)
DupLoopOncePerName(names, seen, reported, errs, fmt) ==
    IF names = <<>> THEN [names |-> seen, errors |-> errs]
    ELSE LET n == Head(names)
         IN  DupLoopOncePerName(Tail(names), seen \cup {n},
                 IF n \in seen THEN reported \cup {n} ELSE reported,
                 IF n \in seen /\ n \notin reported
                 THEN Append(errs, <<fmt, n>>) ELSE errs, fmt)

DupLoopOnce(names, seen, errs, fmt) == DupLoopOncePerName(names, seen, {}, errs, fmt)

RECURSIVE DupLoop(_, _, _, _)
DupLoop(names, seen, errs, fmt) ==
    IF names = <<>> THEN [names |-> seen, errors |-> errs]
    ELSE LET n == Head(names)
         IN  DupLoop(Tail(names), seen \cup {n},
                 IF n \in seen THEN Append(errs, <<fmt, n>>) ELSE errs, fmt)

NamesOf(items) == [i \in 1..Len(items) |-> items[i].name]

\* for ep in endpoints: for chimney in ep.get("chimneys", []): the names met
ChimneyWalk(eps) ==
    Concat([i \in 1..Len(eps) |-> NamesOf(Get(eps[i], "chimneys", <<>>))])

\* Check 3: duplicate chimney names
Check3(config, errs) ==
    DupLoop(ChimneyWalk(Endpoints(config)), {}, errs, FmtDupChimney)

\* Check 4: duplicate router names
Check4(config, errs) == DupLoop(NamesOf(Routers(config)), {}, errs, FmtDupRouter)

\* Check 5: duplicate endpoint names
Check5(config, errs) ==
    DupLoop(NamesOf(Endpoints(config)), {}, errs, FmtDupEndpoint)

\* Check 6: connections reference existing nodes
RECURSIVE Check6Loop(_, _, _)
Check6Loop(conns, all_nodes, errs) ==
    IF conns = <<>> THEN errs
    ELSE LET from_node == Head(conns).from
             to_node == Head(conns).to
             e1 == IF from_node \notin all_nodes
                   THEN Append(errs, ErrFrom(from_node)) ELSE errs
             e2 == IF to_node \notin all_nodes
                   THEN Append(e1, ErrTo(to_node)) ELSE e1
         IN  Check6Loop(Tail(conns), all_nodes, e2)

Check6FromTwice(config, chimney_set, router_set, errs) ==
    Check6Loop([i \in 1..Len(Connections(config)) |->
                   [from |-> Connections(config)[i].from,
                    to |-> Connections(config)[i].from]],
               chimney_set \cup router_set, errs)
Check6(config, chimney_set, router_set, errs) ==
    Check6Loop(Connections(config), chimney_set \cup router_set, errs)

\* Check 7: address range overlaps for slave endpoints.  A loop yields
\* [raised, errors]: raised when _parse_addr raised ValueError, which
\* nothing in _validate_semantics catches.
Slaves(config) == SelectSeq(Endpoints(config), LAMBDA ep : ep.type = "slave")

OverlapStrict(start1, end1, start2, end2) == ~(end1 <= start2 \/ end2 <= start1)
Overlap(start1, end1, start2, end2) == ~(end1 < start2 \/ end2 < start1)

\* the inner loop with slave2.get("addr_range", [0, 0]) in place of the skip
RECURSIVE Check7InnerDefault(_, _, _, _, _)
Check7InnerDefault(rest, slave1, start1, end1, errs) ==
    IF rest = <<>> THEN [raised |-> FALSE, errors |-> errs]
    ELSE LET slave2 == Head(rest)
             range2 == Get(slave2, "addr_range", <<[int |-> 0], [int |-> 0]>>)
             start2 == _parse_addr(range2[1])
             end2 == _parse_addr(range2[2])
         IN  IF ~start2.ok \/ ~end2.ok
             THEN [raised |-> TRUE, errors |-> errs]
             ELSE Check7InnerDefault(Tail(rest), slave1, start1, end1,
                      IF Overlap(start1, end1, start2.val, end2.val)
                      THEN Append(errs, ErrOverlap(slave1.name, slave2.name))
                      ELSE errs)

\* for slave2 in slaves[i+1:]
RECURSIVE Check7Inner(_, _, _, _, _)
Check7Inner(rest, slave1, start1, end1, errs) ==
    IF rest = <<>> THEN [raised |-> FALSE, errors |-> errs]
    ELSE LET slave2 == Head(rest)
         IN  IF "addr_range" \notin DOMAIN slave2
             THEN Check7Inner(Tail(rest), slave1, start1, end1, errs)
             ELSE LET range2 == slave2.addr_range
                      start2 == _parse_addr(range2[1])
                      end2 == _parse_addr(range2[2])
                  IN  IF ~start2.ok \/ ~end2.ok
                      THEN [raised |-> TRUE, errors |-> errs]
                      ELSE Check7Inner(Tail(rest), slave1, start1, end1,
                               IF Overlap(start1, end1, start2.val, end2.val)
                               THEN Append(errs, ErrOverlap(slave1.name, slave2.name))
                               ELSE errs)

\* for i, slave1 in enumerate(slaves)
RECURSIVE Check7Outer(_, _)
Check7Outer(slaves, errs) ==
    IF slaves = <<>> THEN [raised |-> FALSE, errors |-> errs]
    ELSE LET slave1 == Head(slaves)
         IN  IF "addr_range" \notin DOMAIN slave1
             THEN Check7Outer(Tail(slaves), errs)
             ELSE LET range1 == slave1.addr_range
                      start1 == _parse_addr(range1[1])
                      end1 == _parse_addr(range1[2])
                  IN  IF ~start1.ok \/ ~end1.ok
                      THEN [raised |-> TRUE, errors |-> errs]
                      ELSE LET r == Check7Inner(Tail(slaves), slave1,
                                                start1.val, end1.val, errs)
                           IN  IF r.raised THEN r
                               ELSE Check7Outer(Tail(slaves), r.errors)

Check7(config, errs) == Check7Outer(Slaves(config), errs)

\* Check 8: export_axi references
RECURSIVE Check8Loop(_, _, _)
Check8Loop(export_axi, endpoint_names_list, errs) ==
    IF export_axi = <<>> THEN errs
    ELSE LET exported == Head(export_axi)
         IN  Check8Loop(Tail(export_axi), endpoint_names_list,
                 IF \A i \in 1..Len(endpoint_names_list) :
                        endpoint_names_list[i] # exported
                 THEN Append(errs, ErrExport(exported))
                 ELSE errs)

Check8Prepend(config, errs) ==
    LET top == Get(config, "top", <<>>)
        export_axi == Get(top, "export_axi", <<>>)
    IN  Check8Loop(export_axi, NamesOf(Endpoints(config)), <<>>) \o errs
Check8(config, errs) ==
    LET top == Get(config, "top", <<>>)
        export_axi == Get(top, "export_axi", <<>>)
    IN  Check8Loop(export_axi, NamesOf(Endpoints(config)), errs)

(***************************************************************************)
(* The documents the model is run on.                                      *)
(***************************************************************************)
MaxEndpoints == 3
MaxRouters == 3
MaxConnections == 2
MaxGenerated == 2

SeqUpTo(S, n) == UNION {[1..k -> S] : k \in 0..n}

I(n) == [int |-> n]
S(chars) == [str |-> chars]

Ch(name) == [name |-> name]
Rt(name) == [name |-> name]
Master(name, chimneys) ==
    [name |-> name, type |-> "master", protocol |-> "axi4", chimneys |-> chimneys]
Slave(name, protocol, lo, hi) ==
    [name |-> name, type |-> "slave", protocol |-> protocol, addr_range |-> <<lo, hi>>]
SlaveNoRange(name) == [name |-> name, type |-> "slave", protocol |-> "axi4"]

Doc(protocols, endpoints, routers, connections, export_axi, found) ==
    [protocols |-> protocols, endpoints |-> endpoints, routers |-> routers,
     connections |-> connections, top |-> [export_axi |-> export_axi],
     iter_errors |-> found]

\* address literals: "0x0", "0xFF", "0x100", "0x1FF"
Lit0 == S(<<"0", "x", "0">>)
LitFF == S(<<"0", "x", "F", "F">>)
Lit100 == S(<<"0", "x", "1", "0", "0">>)
Lit1FF == S(<<"0", "x", "1", "F", "F">>)

\* more literals, valid and not: "0x1_00", "0X1ff", "0b101", "0o17", "255",
\* " 12 ", "-5", "0", "00", "1_0" | "zz", "", "_", "0x", "010", "0x1G", "12a",
\* "- 5", "0x_"
GoodLiterals ==
    { S(<<"0", "x", "1", "_", "0", "0">>), S(<<"0", "X", "1", "f", "f">>),
      S(<<"0", "b", "1", "0", "1">>), S(<<"0", "o", "1", "7">>),
      S(<<"2", "5", "5">>), S(<<" ", "1", "2", " ">>), S(<<"-", "5">>),
      S(<<"0">>), S(<<"0", "0">>), S(<<"1", "_", "0">>), Lit0, LitFF, I(7) }
BadLiterals ==
    { S(<<"z", "z">>), S(<<>>), S(<<"_">>), S(<<"0", "x">>),
      S(<<"0", "1", "0">>), S(<<"0", "x", "1", "G">>),
      S(<<"1", "2", "a">>), S(<<"-", " ", "5">>), S(<<"0", "x", "_">>) }
Literals == GoodLiterals \cup BadLiterals
LitBad == S(<<"z", "z">>)

EndpointNameAt(i) == <<"S1", "S2", "S3", "S4", "S5">>[i]

\* duplicate names: endpoints named A or B, each with some chimneys
DupEndpointOptions ==
    { Master(n, c) : n \in {"A", "B"},
                     c \in {<<>>, <<Ch("c1")>>, <<Ch("c2")>>, <<Ch("c1"), Ch("c1")>>} }
DupDocs ==
    { Doc({"axi4"}, eps, <<>>, <<>>, <<>>, <<>>) :
        eps \in SeqUpTo(DupEndpointOptions, MaxEndpoints) }
RouterDocs ==
    { Doc({"axi4"}, <<>>, rs, <<>>, <<>>, <<>>) :
        rs \in SeqUpTo({Rt("r1"), Rt("r2")}, MaxRouters) }

\* connections over chimneys and routers, some of them declared twice
ConnOptions == [from : {"c1", "r1", "ghost"}, to : {"c1", "r1", "ghost"}]
ConnDocs ==
    { Doc({"axi4"}, eps, rs, cs, <<>>, <<>>) :
        eps \in { <<>>, <<Master("A", <<Ch("c1")>>)>>,
                  <<Master("A", <<Ch("c1")>>), Master("B", <<Ch("c1")>>)>> },
        rs \in { <<>>, <<Rt("r1")>>, <<Rt("r1"), Rt("r1")>> },
        cs \in SeqUpTo(ConnOptions, MaxConnections) }

\* address ranges: what an endpoint at position i may be
RangeOptions ==
    { <<"slave", <<>>>>, <<"slave", <<Lit0, LitFF>>>>, <<"slave", <<LitFF, Lit1FF>>>>,
      <<"slave", <<Lit100, Lit1FF>>>>, <<"slave", <<I(0), I(10)>>>>,
      <<"slave", <<I(5), I(15)>>>>, <<"slave", <<I(12), I(3)>>>>,
      <<"master", <<>>>>, <<"master", <<I(0), I(10)>>>> }
RangeEndpoint(i, opt) ==
    IF opt[2] = <<>>
    THEN [name |-> EndpointNameAt(i), type |-> opt[1], protocol |-> "axi4"]
    ELSE [name |-> EndpointNameAt(i), type |-> opt[1], protocol |-> "axi4",
          addr_range |-> opt[2]]
RangeDocs ==
    { Doc({"axi4"}, [i \in DOMAIN opts |-> RangeEndpoint(i, opts[i])],
          <<>>, <<>>, <<>>, <<>>) :
        opts \in SeqUpTo(RangeOptions, MaxEndpoints) }

\* address literals of every kind, on the first or on the second slave
LiteralDocs ==
    { Doc({"axi4"}, eps, <<>>, <<>>, <<>>, <<>>) :
        eps \in UNION { { <<Slave("S1", "axi4", l, Lit1FF)>>,
                          <<Slave("S1", "axi4", I(0), l)>>,
                          <<Slave("S1", "axi4", I(0), I(10)),
                            Slave("S2", "axi4", l, Lit1FF)>>,
                          <<Slave("S1", "axi4", l, LitFF),
                            Slave("S2", "axi4", LitFF, Lit1FF)>> } :
                        l \in Literals } }

\* violations of several rules at once
MixedEndpoints ==
    { <<>>,
      <<Master("A", <<Ch("c1")>>)>>,
      <<Master("A", <<Ch("c1")>>), Slave("B", "ahb", I(0), I(100))>>,
      <<Master("A", <<Ch("c1"), Ch("c1")>>), SlaveNoRange("A"),
        Slave("B", "ahb", I(0), I(100)), Slave("C", "axi4", I(100), LitFF)>>,
      <<Slave("B", "ahb", LitBad, I(100)), Master("B", <<Ch("c1"), Ch("c1")>>)>>,
      <<Slave("A", "", I(0), I(10)), SlaveNoRange("B"),
        Slave("C", "axi4", I(20), LitBad)>>,
      <<[name |-> "A", type |-> "master"], [name |-> "A", type |-> "slave"]>> }
MixedDocs ==
    { Doc(ps, eps, rs, cs, ex, <<>>) :
        ps \in { {}, {"axi4"} },
        eps \in MixedEndpoints,
        rs \in { <<>>, <<Rt("r1"), Rt("r1")>> },
        cs \in { <<>>, <<[from |-> "c1", to |-> "r1"]>>,
                 <<[from |-> "ghost", to |-> "c1"], [from |-> "r1", to |-> "nowhere"]>> },
        ex \in { <<>>, <<"A">>, <<"ghost", "B", "ghost">> } }

\* documents with absent optional keys
SparseDocs ==
    { [iter_errors |-> <<>>],
      [endpoints |-> <<Slave("A", "axi4", I(0), I(1))>>, iter_errors |-> <<>>],
      [protocols |-> {"axi4"}, endpoints |-> <<Master("A", <<>>)>>,
       top |-> [name |-> "soc"], iter_errors |-> <<>>],
      [top |-> [export_axi |-> <<"A">>], iter_errors |-> <<>>] }

\* what the Schema Gate may report
Violations ==
    { <<[path |-> <<>>, message |-> "'endpoints' is a required property"]>>,
      <<[path |-> <<"endpoints", "0", "type">>, message |-> "'bus' is not one of"]>>,
      <<[path |-> <<"endpoints", "0">>, message |-> "'name' is a required property"],
        [path |-> <<"routers">>, message |-> "is not of type 'array'"],
        [path |-> <<"endpoints", "0">>, message |-> "'name' is a required property"]>> }

ValidDoc ==
    Doc({"axi4"},
        <<Master("A", <<Ch("c1")>>), Slave("B", "axi4", Lit0, LitFF)>>,
        <<Rt("r1")>>, <<[from |-> "c1", to |-> "r1"]>>, <<"B">>, <<>>)
InvalidDoc ==
    Doc({"axi4"},
        <<Master("A", <<Ch("c1")>>), Slave("B", "ahb", I(0), I(100))>>,
        <<>>, <<>>, <<"ghost">>, <<>>)
UnparsableDoc ==
    Doc({"axi4"},
        <<Master("A", <<Ch("c1")>>), Slave("B", "ahb", LitBad, I(100))>>,
        <<>>, <<>>, <<"ghost">>, <<>>)
SampleDocs == {ValidDoc, InvalidDoc, UnparsableDoc}

SchemaInvalidDocs ==
    { [d EXCEPT !.iter_errors = v] : d \in SampleDocs, v \in Violations }

Docs ==
    DupDocs \cup RouterDocs \cup ConnDocs \cup RangeDocs \cup LiteralDocs
        \cup MixedDocs \cup SparseDocs \cup SampleDocs \cup SchemaInvalidDocs

\* The argument of validate: a dict, or a str that yaml.safe_load turns into
\* a dict or rejects with YAMLError.
DictConfig(d) == [kind |-> "dict", value |-> d]
StrConfig(d) == [kind |-> "str", yaml |-> "ok", value |-> d]
BadYaml == [kind |-> "str", yaml |-> "mapping values are not allowed here"]

Configs ==
    { DictConfig(d) : d \in Docs }
        \cup { StrConfig(d) : d \in SampleDocs \cup SchemaInvalidDocs }
        \cup { BadYaml }

(***************************************************************************)
(* ConfigValidator.validate, step by step.  pc says where the call is:     *)
(* "v_parse", "v_schema", "check1" .. "check8", "v_return", and "v_done"   *)
(* once it has returned or raised.                                         *)
(***************************************************************************)
NoResult == [kind |-> "none"]
Returned(valid, errs) == [kind |-> "returned", valid |-> valid, errors |-> errs]
Raised(exc) == [kind |-> "raised", exception |-> exc]

NoDoc == [iter_errors |-> <<>>]

ValidateLocals == <<config_dict, schema_errors, errors, chimney_names, router_names>>
Outside == <<route, request, run_result, response, job_id, returncode, jobs, generated>>

\* lines 52-58: a str is parsed, anything else is taken as the document
ValidateParse ==
    /\ pc = "v_parse"
    /\ LET config == request.config
       IN  IF config.kind = "str"
           THEN IF config.yaml = "ok"
                THEN /\ config_dict' = config.value
                     /\ pc' = "v_schema"
                     /\ result' = result
                ELSE /\ result' = Returned(FALSE, <<ErrYaml(config.yaml)>>)
                     /\ pc' = "v_done"
                     /\ config_dict' = config_dict
           ELSE /\ config_dict' = config.value
                /\ pc' = "v_schema"
                /\ result' = result
    /\ UNCHANGED <<schema_errors, errors, chimney_names, router_names>>
    /\ UNCHANGED Outside

\* where validate goes after the Schema Gate (line 67)
AfterSchemaAlways(found) == "check1"
AfterSchema(found) == IF found = <<>> THEN "check1" ELSE "v_return"

\* lines 60-67
ValidateSchema ==
    /\ pc = "v_schema"
    /\ schema_errors' = _validate_schema(config_dict)
    /\ errors' = <<>> \o schema_errors'
    /\ pc' = AfterSchema(schema_errors')
    /\ UNCHANGED <<config_dict, chimney_names, router_names, result>>
    /\ UNCHANGED Outside

SemanticStep(here, next, errs) ==
    /\ pc = here
    /\ errors' = errs
    /\ pc' = next
    /\ UNCHANGED <<config_dict, schema_errors, result>>
    /\ UNCHANGED Outside

Check1Step ==
    /\ SemanticStep("check1", "check2",
           Check1Loop(Endpoints(config_dict), Protocols(config_dict), errors))
    /\ UNCHANGED <<chimney_names, router_names>>

Check2Step ==
    /\ SemanticStep("check2", "check3", Check2Loop(Endpoints(config_dict), errors))
    /\ UNCHANGED <<chimney_names, router_names>>

Check3Step ==
    /\ SemanticStep("check3", "check4", Check3(config_dict, errors).errors)
    /\ chimney_names' = Check3(config_dict, errors).names
    /\ UNCHANGED router_names

Check4Step ==
    /\ SemanticStep("check4", "check5", Check4(config_dict, errors).errors)
    /\ router_names' = Check4(config_dict, errors).names
    /\ UNCHANGED chimney_names

Check5Step ==
    /\ SemanticStep("check5", "check6", Check5(config_dict, errors).errors)
    /\ UNCHANGED <<chimney_names, router_names>>

Check6Step ==
    /\ SemanticStep("check6", "check7",
           Check6(config_dict, chimney_names, router_names, errors))
    /\ UNCHANGED <<chimney_names, router_names>>

\* check 7 either appends its errors or raises ValueError out of validate
Check7Step ==
    /\ pc = "check7"
    /\ LET r == Check7(config_dict, errors)
       IN  IF r.raised
           THEN /\ result' = Raised("ValueError")
                /\ pc' = "v_done"
                /\ errors' = errors
           ELSE /\ errors' = r.errors
                /\ pc' = "check8"
                /\ result' = result
    /\ UNCHANGED <<config_dict, schema_errors, chimney_names, router_names>>
    /\ UNCHANGED Outside

Check8Step ==
    /\ SemanticStep("check8", "v_return", Check8(config_dict, errors))
    /\ UNCHANGED <<chimney_names, router_names>>

\* line 71: len(errors) == 0
ValidFlagSchemaOnly(errs) == Len(schema_errors) = 0
ValidFlag(errs) == Len(errs) = 0

\* line 71
ValidateReturn ==
    /\ pc = "v_return"
    /\ result' = Returned(ValidFlag(errors), errors)
    /\ pc' = "v_done"
    /\ UNCHANGED ValidateLocals
    /\ UNCHANGED Outside

ValidateNext ==
    \/ ValidateParse
    \/ ValidateSchema
    \/ Check1Step
    \/ Check2Step
    \/ Check3Step
    \/ Check4Step
    \/ Check5Step
    \/ Check6Step
    \/ Check7Step
    \/ Check8Step
    \/ ValidateReturn

\* validate called on its own, on every document of Configs
InitValidate ==
    /\ route = "direct"
    /\ request \in { [config |-> c] : c \in Configs }
    /\ pc = "v_parse"
    /\ config_dict = NoDoc
    /\ schema_errors = <<>>
    /\ errors = <<>>
    /\ chimney_names = {}
    /\ router_names = {}
    /\ result = NoResult
    /\ run_result = NoResult
    /\ response = NoResult
    /\ job_id = None
    /\ returncode = <<>>
    /\ jobs = <<>>
    /\ generated = 0

SpecValidate == InitValidate /\ [][ValidateNext]_vars

(***************************************************************************)
(* FlooGenRunner: run, step by step ("run_begin", "run_config",            *)
(* "run_floogen", then "run_done"), and the job registry.  The file system *)
(* and the floogen process are the environment: each step takes one of the *)
(* outcomes they can produce.                                              *)
(***************************************************************************)
\* _generate_job_id: "job_<timestamp>_<uuid>", a fresh id every time
GeneratedIds == <<"job_1", "job_2", "job_3", "job_4">>
_generate_job_id(n) == GeneratedIds[n + 1]

RunFailure(error) == [kind |-> "returned", success |-> FALSE, result |-> [error |-> error]]

RunReturn ==
    UNCHANGED <<route, request, config_dict, schema_errors, errors, result,
                response, chimney_names, router_names>>

\* lines 47-51: the job id and the job directory
RunBegin ==
    /\ pc = "run_begin"
    /\ IF Get(request, "job_id", None) = None
       THEN /\ job_id' = _generate_job_id(generated)
            /\ generated' = generated + 1
       ELSE /\ job_id' = request.job_id
            /\ generated' = generated
    /\ \E mkdir \in {"ok", "OSError"} :
          IF mkdir = "ok"
          THEN pc' = "run_config" /\ run_result' = run_result
          ELSE pc' = "run_done" /\ run_result' = Raised(mkdir)
    /\ UNCHANGED <<jobs, returncode>>
    /\ RunReturn

\* lines 53-80: the document is parsed again and written to config.yml
RunConfig ==
    /\ pc = "run_config"
    /\ LET config == request.config
       IN  IF config.kind = "str" /\ config.yaml # "ok"
           THEN /\ run_result' = RunFailure("YAML parsing error")
                /\ pc' = "run_done"
           ELSE \E disk \in {"ok", "write fails", "OSError"} :
                   CASE disk = "ok" ->
                          pc' = "run_floogen" /\ run_result' = run_result
                     [] disk = "write fails" ->
                          /\ run_result' = RunFailure("Failed to write config file")
                          /\ pc' = "run_done"
                     [] OTHER ->
                          pc' = "run_done" /\ run_result' = Raised(disk)
    /\ UNCHANGED <<job_id, returncode, jobs, generated>>
    /\ RunReturn

CompletedJob(id) == [job_id |-> id, status |-> "completed", zip_path |-> <<id, "_rtl.zip">>]
FailedJob(id, code) ==
    [job_id |-> id, status |-> "failed", error |-> <<"floogen exited with code %s", code>>]

\* self.jobs.setdefault(job_id, job_info): an earlier record is kept
PutIfAbsent(registry, id, info) ==
    [k \in DOMAIN registry \cup {id} |-> IF k \in DOMAIN registry THEN registry[k] ELSE info]

\* self.jobs[job_id] = job_info
Put(registry, id, info) ==
    [k \in DOMAIN registry \cup {id} |-> IF k = id THEN info ELSE registry[k]]

\* what the floogen process can do: exit with a code, not be there, run out
\* of time, fail otherwise; after exit code 0, _create_zip can raise
ExitCodes == {0, 1, 2}
Outcomes ==
    {<<"exit", c>> : c \in ExitCodes}
        \cup {<<"exit 0, zip fails", 0>>, <<"FileNotFoundError", 0>>,
              <<"TimeoutExpired", 0>>, <<"Exception", 0>>}

\* lines 91-160: the floogen process, the ZIP, the registry
RunFloogen ==
    /\ pc = "run_floogen"
    /\ \E outcome \in Outcomes :
          CASE outcome[1] = "exit" /\ outcome[2] = 0 ->
                 /\ returncode' = <<0>>
                 /\ jobs' = Put(jobs, job_id, CompletedJob(job_id))
                 /\ run_result' = [kind |-> "returned", success |-> TRUE,
                                   result |-> CompletedJob(job_id)]
            [] outcome[1] = "exit" /\ outcome[2] # 0 ->
                 /\ returncode' = <<outcome[2]>>
                 /\ jobs' = Put(jobs, job_id, FailedJob(job_id, outcome[2]))
                 /\ run_result' = [kind |-> "returned", success |-> FALSE,
                                   result |-> FailedJob(job_id, outcome[2])]
            [] outcome[1] = "exit 0, zip fails" ->
                 /\ returncode' = <<0>>
                 /\ jobs' = jobs
                 /\ run_result' = RunFailure("Unexpected error running floogen")
            [] outcome[1] = "FileNotFoundError" ->
                 /\ returncode' = <<>>
                 /\ jobs' = jobs
                 /\ run_result' = RunFailure("floogen command not found")
            [] outcome[1] = "TimeoutExpired" ->
                 /\ returncode' = <<>>
                 /\ jobs' = jobs
                 /\ run_result' = RunFailure("floogen execution timed out")
            [] OTHER ->
                 /\ returncode' = <<>>
                 /\ jobs' = jobs
                 /\ run_result' = RunFailure("Unexpected error running floogen")
    /\ pc' = "run_done"
    /\ UNCHANGED <<job_id, generated>>
    /\ RunReturn

\* get_job_info: self.jobs.get(job_id); None is the empty record here
NoJob == <<>>
get_job_info(id) == Get(jobs, id, NoJob)

(***************************************************************************)
(* The request handlers of app.py.  One request is handled at a time.      *)
(***************************************************************************)
Http(status, body) == [kind |-> "http", status |-> status, body |-> body]

HandlerLocals ==
    <<config_dict, schema_errors, errors, result, run_result, chimney_names,
      router_names, job_id, returncode>>

\* a request arrives, or validate / run is called by another caller
Accept(r, body, at) ==
    /\ pc \in {"idle", "responded"}
    /\ "job_id" \notin DOMAIN body => generated < MaxGenerated
    /\ route' = r
    /\ request' = body
    /\ pc' = at
    /\ config_dict' = NoDoc
    /\ schema_errors' = <<>>
    /\ errors' = <<>>
    /\ chimney_names' = {}
    /\ router_names' = {}
    /\ result' = NoResult
    /\ run_result' = NoResult
    /\ response' = NoResult
    /\ job_id' = None
    /\ returncode' = <<>>
    /\ UNCHANGED <<jobs, generated>>

ServerConfigs ==
    { DictConfig(d) : d \in SampleDocs }
        \cup { DictConfig([ValidDoc EXCEPT !.iter_errors = v]) : v \in Violations }
        \cup { StrConfig(ValidDoc), StrConfig(InvalidDoc), BadYaml }

Bodies ==
    { <<>>, [job_id |-> "j1"] }
        \cup { [config |-> c] : c \in ServerConfigs }
        \cup { [config |-> c, job_id |-> "j1"] : c \in ServerConfigs }

PostValidate == \E body \in Bodies : Accept("validate", body, "handler")
PostGenerate == \E body \in Bodies : Accept("generate", body, "handler")
CallRun ==
    \E body \in Bodies : "config" \in DOMAIN body /\ Accept("run", body, "run_begin")

\* lines 70-78 and 109-118
HandlerEntry ==
    /\ pc = "handler"
    /\ IF "config" \notin DOMAIN request
       THEN /\ pc' = "responded"
            /\ response' = Http(400, IF route = "validate"
                                     THEN [valid |-> FALSE,
                                           errors |-> <<"Missing 'config' field in request body">>]
                                     ELSE [success |-> FALSE,
                                           error |-> "Missing 'config' field in request body"])
       ELSE /\ pc' = "v_parse"
            /\ response' = response
    /\ UNCHANGED <<route, request, jobs, generated>>
    /\ UNCHANGED HandlerLocals

\* validate_config, lines 81-94
ValidateRespond ==
    /\ route = "validate"
    /\ pc = "v_done"
    /\ response' = IF result.kind = "raised"
                   THEN Http(500, [valid |-> FALSE,
                                   errors |-> <<<<"Validation error: %s", result.exception>>>>])
                   ELSE Http(200, [valid |-> result.valid, errors |-> result.errors])
    /\ pc' = "responded"
    /\ UNCHANGED <<route, request, jobs, generated>>
    /\ UNCHANGED HandlerLocals

\* generate_rtl, lines 121-130: whether runner.run is called
RunsOn(res) == res.kind = "returned" /\ res.valid

\* generate_rtl, lines 121-130 and 148-152
GenerateAfterValidate ==
    /\ route = "generate"
    /\ pc = "v_done"
    /\ IF RunsOn(result)
       THEN /\ pc' = "run_begin"
            /\ response' = response
       ELSE /\ pc' = "responded"
            /\ response' =
                 IF result.kind = "raised"
                 THEN Http(500, [success |-> FALSE,
                                 error |-> <<"Generation error: %s", result.exception>>])
                 ELSE Http(400, [success |-> FALSE,
                                 error |-> "Configuration validation failed",
                                 validation_errors |-> result.errors])
    /\ UNCHANGED <<route, request, jobs, generated>>
    /\ UNCHANGED HandlerLocals

\* generate_rtl, lines 132-152
GenerateRespond ==
    /\ route = "generate"
    /\ pc = "run_done"
    /\ response' =
         IF run_result.kind = "raised"
         THEN Http(500, [success |-> FALSE,
                         error |-> <<"Generation error: %s", run_result.exception>>])
         ELSE IF run_result.success
         THEN Http(200, [success |-> TRUE, job_id |-> run_result.result.job_id,
                         zip_path |-> run_result.result.zip_path])
         ELSE Http(500, [success |-> FALSE, error |-> run_result.result.error])
    /\ pc' = "responded"
    /\ UNCHANGED <<route, request, jobs, generated>>
    /\ UNCHANGED HandlerLocals

\* run returns to a caller other than generate_rtl
RunReturned ==
    /\ route = "run"
    /\ pc = "run_done"
    /\ pc' = "responded"
    /\ UNCHANGED <<route, request, response, jobs, generated>>
    /\ UNCHANGED HandlerLocals

\* get_job_status, lines 165-173
GetJobStatus ==
    /\ pc \in {"idle", "responded"}
    /\ \E id \in {"j1", "job_1", "nobody"} :
          /\ request' = [job |-> id]
          /\ response' = IF get_job_info(id) # NoJob
                         THEN Http(200, get_job_info(id))
                         ELSE Http(404, [error |-> <<"Job %s not found", id>>])
    /\ route' = "jobs"
    /\ pc' = "responded"
    /\ config_dict' = NoDoc
    /\ schema_errors' = <<>>
    /\ errors' = <<>>
    /\ chimney_names' = {}
    /\ router_names' = {}
    /\ result' = NoResult
    /\ run_result' = NoResult
    /\ job_id' = None
    /\ returncode' = <<>>
    /\ UNCHANGED <<jobs, generated>>

Init ==
    /\ route = "idle"
    /\ request = <<>>
    /\ pc = "idle"
    /\ config_dict = NoDoc
    /\ schema_errors = <<>>
    /\ errors = <<>>
    /\ chimney_names = {}
    /\ router_names = {}
    /\ result = NoResult
    /\ run_result = NoResult
    /\ response = NoResult
    /\ job_id = None
    /\ returncode = <<>>
    /\ jobs = <<>>
    /\ generated = 0

Next ==
    \/ PostValidate
    \/ PostGenerate
    \/ CallRun
    \/ HandlerEntry
    \/ ValidateNext
    \/ ValidateRespond
    \/ GenerateAfterValidate
    \/ RunBegin
    \/ RunConfig
    \/ RunFloogen
    \/ GenerateRespond
    \/ RunReturned
    \/ GetJobStatus

Spec == Init /\ [][Next]_vars

(***************************************************************************)
(* What a document says, stated without the validator's loops.             *)
(***************************************************************************)
Range(seq) == {seq[i] : i \in DOMAIN seq}
Count(seq, x) == Cardinality({i \in DOMAIN seq : seq[i] = x})
Indices(seq) == [i \in 1..Len(seq) |-> i]

\* the errors of the list that were made from format fmt, in order
OfFormat(errs, fmt) == SelectSeq(errs, LAMBDA e : e[1] = fmt)

SchemaFormat == "%s: %s"
SemanticFormats ==
    { ErrProtocol("", "")[1], ErrNoAddrRange("")[1], FmtDupChimney, FmtDupRouter,
      FmtDupEndpoint, ErrFrom("")[1], ErrTo("")[1], ErrOverlap("", "")[1],
      ErrExport("")[1] }

SemanticPcs ==
    {"check1", "check2", "check3", "check4", "check5", "check6", "check7", "check8"}

\* validate has returned a pair
HasReturned == pc = "v_done" /\ result.kind = "returned"

\* the slaves of the document that declare addr_range, and whether every
\* bound of theirs is a literal int(text, 0) accepts
RangedSlaves(doc) ==
    SelectSeq(Endpoints(doc),
              LAMBDA ep : ep.type = "slave" /\ "addr_range" \in DOMAIN ep)
LiteralOk(addr) ==
    IsStr(addr) => PyInt0(SelectSeq(addr.str, LAMBDA c : c # "_")).ok
AllLiteralsOk(doc) ==
    \A i \in DOMAIN RangedSlaves(doc) :
        LiteralOk(RangedSlaves(doc)[i].addr_range[1])
            /\ LiteralOk(RangedSlaves(doc)[i].addr_range[2])

(***************************************************************************)
(* C1.  When the Schema Gate reports at least one error for a document,    *)
(* validate never reaches a semantic check, and what it returns is false   *)
(* with exactly the Schema Gate's errors, one "<path>: <message>" per      *)
(* reported error in the reported order, and no semantic error string.     *)
(***************************************************************************)
SchemaErrorsOf(doc) ==
    [i \in 1..Len(doc.iter_errors) |->
        <<SchemaFormat,
          IF doc.iter_errors[i].path = <<>> THEN <<"root">> ELSE doc.iter_errors[i].path,
          doc.iter_errors[i].message>>]

\* C1: a document with schema errors gets them alone, and no semantic check runs
C1_SchemaErrorsAlone ==
    config_dict.iter_errors # <<>> =>
        /\ pc \notin SemanticPcs
        /\ \A i \in DOMAIN errors : errors[i][1] \notin SemanticFormats
        /\ pc = "v_done" =>
              /\ result = Returned(FALSE, SchemaErrorsOf(config_dict))
              /\ result.errors = schema_errors

\* a document with three schema errors, and with an undefined protocol and an
\* undefined export besides, has been answered
C1_Witness ==
    /\ HasReturned
    /\ Len(config_dict.iter_errors) = 3
    /\ config_dict.top.export_axi = <<"ghost">>
    /\ Len(result.errors) = 3

(***************************************************************************)
(* C2.  Every call of validate ends in a returned (valid, errors) pair,    *)
(* also on a document with an address literal int(text, 0) rejects.        *)
(***************************************************************************)
\* C2: validate always ends in a returned pair
C2_AlwaysReturnsAPair == pc = "v_done" => result.kind = "returned"

(***************************************************************************)
(* C3.  On a document with an unparsable address literal, validate still   *)
(* returns the errors of checks 1 to 6 and of check 8.                     *)
(***************************************************************************)
\* C3: with an unparsable literal, the errors of checks 1-6 and 8 are still returned
C3_OtherChecksReported ==
    (pc = "v_done" /\ config_dict.iter_errors = <<>> /\ ~AllLiteralsOk(config_dict)) =>
        \A e \in Range(errors) \cup Range(Check8(config_dict, <<>>)) :
            result.kind = "returned" /\ e \in Range(result.errors)

(***************************************************************************)
(* The errors each rule of the specification asks for, read off the        *)
(* document: positions are selected by a predicate, not found by a loop    *)
(* with an accumulator.                                                    *)
(***************************************************************************)
\* the positions of seq that satisfy Keep, in increasing order
Positions(seq, Keep(_)) == SelectSeq(Indices(seq), Keep)

\* rule 1: endpoints whose non-empty protocol is not a declared protocol
Want1(doc) ==
    LET eps == Endpoints(doc)
        bad == Positions(eps, LAMBDA i :
                   /\ "protocol" \in DOMAIN eps[i]
                   /\ eps[i].protocol # ""
                   /\ eps[i].protocol \notin Protocols(doc))
    IN  [k \in 1..Len(bad) |-> ErrProtocol(eps[bad[k]].name, eps[bad[k]].protocol)]

\* rule 2: slaves without addr_range
Want2(doc) ==
    LET eps == Endpoints(doc)
        bad == Positions(eps, LAMBDA i :
                   eps[i].type = "slave" /\ "addr_range" \notin DOMAIN eps[i])
    IN  [k \in 1..Len(bad) |-> ErrNoAddrRange(eps[bad[k]].name)]

\* rules 3, 4, 5: every occurrence of a name after its first one
Repeats(names) ==
    LET later == Positions(names, LAMBDA k : \E j \in 1..(k - 1) : names[j] = names[k])
    IN  [k \in 1..Len(later) |-> names[later[k]]]
WantDup(names, fmt) == [k \in 1..Len(Repeats(names)) |-> <<fmt, Repeats(names)[k]>>]
Want3(doc) == WantDup(ChimneyWalk(Endpoints(doc)), FmtDupChimney)
Want4(doc) == WantDup(NamesOf(Routers(doc)), FmtDupRouter)
Want5(doc) == WantDup(NamesOf(Endpoints(doc)), FmtDupEndpoint)

\* rule 6: the nodes are the chimney names and the router names
Nodes(doc) ==
    LET eps == Endpoints(doc)
    IN  UNION { IF "chimneys" \in DOMAIN eps[i]
                THEN {eps[i].chimneys[j].name : j \in DOMAIN eps[i].chimneys}
                ELSE {} : i \in DOMAIN eps }
            \cup {Routers(doc)[i].name : i \in DOMAIN Routers(doc)}
WantConn(doc, conn) ==
    (IF conn.from \in Nodes(doc) THEN <<>> ELSE <<ErrFrom(conn.from)>>)
        \o (IF conn.to \in Nodes(doc) THEN <<>> ELSE <<ErrTo(conn.to)>>)
Want6(doc) ==
    Concat([i \in 1..Len(Connections(doc)) |-> WantConn(doc, Connections(doc)[i])])

\* rule 7: the closed interval of a slave that declares addr_range
BoundValue(addr) ==
    IF IsStr(addr) THEN PyInt0(SelectSeq(addr.str, LAMBDA c : c # "_")).val
    ELSE addr.int
Lo(ep) == BoundValue(ep.addr_range[1])
Hi(ep) == BoundValue(ep.addr_range[2])
Intersect(a, b) == Hi(a) >= Lo(b) /\ Hi(b) >= Lo(a)
\* the pairs (i, j), i < j, of 1..n, ordered by i and then by j
Pairs(n) ==
    SelectSeq([k \in 1..(n * n) |-> <<((k - 1) \div n) + 1, ((k - 1) % n) + 1>>],
              LAMBDA p : p[1] < p[2])
Want7(doc) ==
    LET sl == RangedSlaves(doc)
        hit == SelectSeq(Pairs(Len(sl)), LAMBDA p : Intersect(sl[p[1]], sl[p[2]]))
    IN  [k \in 1..Len(hit) |-> ErrOverlap(sl[hit[k][1]].name, sl[hit[k][2]].name)]

\* rule 8: exported names that no endpoint has
Want8(doc) ==
    LET ex == IF "top" \in DOMAIN doc /\ "export_axi" \in DOMAIN doc.top
              THEN doc.top.export_axi ELSE <<>>
        bad == Positions(ex, LAMBDA i :
                   ex[i] \notin {Endpoints(doc)[j].name : j \in DOMAIN Endpoints(doc)})
    IN  [k \in 1..Len(bad) |-> ErrExport(ex[bad[k]])]

HasSchemaError(doc) == doc.iter_errors # <<>>
HasSemanticError(doc) ==
    \/ Want1(doc) # <<>> \/ Want2(doc) # <<>> \/ Want3(doc) # <<>>
    \/ Want4(doc) # <<>> \/ Want5(doc) # <<>> \/ Want6(doc) # <<>>
    \/ (AllLiteralsOk(doc) /\ Want7(doc) # <<>>)
    \/ Want8(doc) # <<>>

(***************************************************************************)
(* C4.  In generate_rtl, runner.run is called only after validate returned *)
(* valid = true; a request whose config has a schema error or a semantic   *)
(* error never gets to run, creates no job, and is answered 400 with the   *)
(* validation errors.                                                      *)
(***************************************************************************)
RunPcs == {"run_begin", "run_config", "run_floogen", "run_done"}

\* the document a generate request carries, when it carries one
Carried == request.config.value
CarriesDocument ==
    /\ route = "generate"
    /\ "config" \in DOMAIN request
    /\ (request.config.kind = "str" => request.config.yaml = "ok")

\* C4: a config with a schema or semantic error never reaches run and is answered 400
C4_InvalidConfigIsRefused ==
    (CarriesDocument /\ (HasSchemaError(Carried) \/ HasSemanticError(Carried))) =>
        /\ pc \notin RunPcs
        /\ run_result = NoResult
        /\ job_id = None
        /\ pc = "responded" =>
              /\ response.status = 400
              /\ response.body.validation_errors # <<>>

\* the part of C4 that the code keeps: run starts only on (True, [])
C4_RunOnlyWhenValid ==
    (route = "generate" /\ (pc \in RunPcs \/ run_result # NoResult \/ job_id # None)) =>
        /\ result = Returned(TRUE, <<>>)
        /\ ~HasSchemaError(Carried)
        /\ ~HasSemanticError(Carried)

(***************************************************************************)
(* C5.  Duplicate names are reported per occurrence: in each of the three  *)
(* namespaces (chimneys of the whole document, routers, endpoints) a name  *)
(* that occurs n >= 1 times gets exactly n - 1 "Duplicate ... name"        *)
(* errors, one at its second and at every later occurrence, in document    *)
(* order; no other name gets one.                                          *)
(***************************************************************************)
\* the semantic checks up to check k have run on the document
CheckPcs ==
    <<"check1", "check2", "check3", "check4", "check5", "check6", "check7", "check8">>
PcsAfter(k) == {CheckPcs[i] : i \in (k + 1)..8}
CheckDone(k) ==
    /\ schema_errors = <<>>
    /\ \/ pc \in PcsAfter(k) \cup {"v_return"}
       \/ pc = "v_done" /\ request.config.kind = "dict"
       \/ pc = "v_done" /\ request.config.kind = "str" /\ request.config.yaml = "ok"
    /\ (result.kind = "raised" => k <= 6)

PerOccurrence(names, fmt, errs) ==
    /\ \A n \in Range(names) :
          Count(OfFormat(errs, fmt), <<fmt, n>>) = Count(names, n) - 1
    /\ \A e \in Range(OfFormat(errs, fmt)) : e[2] \in Range(names)
    /\ OfFormat(errs, fmt) = WantDup(names, fmt)

DuplicatesPerOccurrence(doc, errs) ==
    /\ PerOccurrence(ChimneyWalk(Endpoints(doc)), FmtDupChimney, errs)
    /\ PerOccurrence(NamesOf(Routers(doc)), FmtDupRouter, errs)
    /\ PerOccurrence(NamesOf(Endpoints(doc)), FmtDupEndpoint, errs)

\* C5: n occurrences of a name give n - 1 duplicate errors, in document order
C5_DuplicatePerOccurrence ==
    /\ CheckDone(5) => DuplicatesPerOccurrence(config_dict, errors)
    /\ (HasReturned /\ CheckDone(5)) => DuplicatesPerOccurrence(config_dict, result.errors)

\* three endpoints named A, with chimney c1 on at least three places: two
\* errors for A, and one error less than c1 has places
C5_Witness ==
    /\ HasReturned
    /\ Count(NamesOf(Endpoints(config_dict)), "A") = 3
    /\ Count(result.errors, ErrDupEndpoint("A")) = 2
    /\ Count(ChimneyWalk(Endpoints(config_dict)), "c1") >= 3
    /\ Count(result.errors, ErrDupChimney("c1")) >= 2

(***************************************************************************)
(* C6.  For every connection there is a 'from' error iff its from is       *)
(* neither a chimney name nor a router name of the document, and a 'to'    *)
(* error iff its to is neither: two errors when both ends are unresolved,  *)
(* none when both resolve.  A name declared twice is still a node.         *)
(***************************************************************************)
ConnErrors(errs) == SelectSeq(errs, LAMBDA e : e[1] \in {ErrFrom("")[1], ErrTo("")[1]})

\* C6: one error per unresolved end of every connection
C6_ConnectionResolution ==
    /\ CheckDone(6) => ConnErrors(errors) = Want6(config_dict)
    /\ (HasReturned /\ CheckDone(6)) => ConnErrors(result.errors) = Want6(config_dict)

\* ghost -> ghost gets two errors, c1 -> r1 none although c1 and r1 are both
\* declared twice and reported as duplicates
C6_Witness ==
    /\ HasReturned
    /\ Connections(config_dict) =
          <<[from |-> "ghost", to |-> "ghost"], [from |-> "c1", to |-> "r1"]>>
    /\ ErrDupChimney("c1") \in Range(result.errors)
    /\ ErrDupRouter("r1") \in Range(result.errors)
    /\ ConnErrors(result.errors) = <<ErrFrom("ghost"), ErrTo("ghost")>>

(***************************************************************************)
(* C7.  Every pair of slaves that both declare addr_range is compared      *)
(* once, and the pair gets an overlap error, the earlier endpoint named    *)
(* first, iff not (end1 < start2 or end2 < start1): one error for ranges   *)
(* that touch, none for disjoint ranges; the document with its endpoints   *)
(* in the opposite order reports the same pairs.                           *)
(***************************************************************************)
OverlapFormat == ErrOverlap("", "")[1]
Reverse(seq) == [i \in 1..Len(seq) |-> seq[Len(seq) + 1 - i]]
Unordered(errs) == {{errs[i][2], errs[i][3]} : i \in DOMAIN errs}

SameInReverse(doc, errs) ==
    "endpoints" \in DOMAIN doc =>
        LET back == Check7([doc EXCEPT !.endpoints = Reverse(@)], <<>>)
        IN  /\ ~back.raised
            /\ Len(back.errors) = Len(OfFormat(errs, OverlapFormat))
            /\ Unordered(back.errors) = Unordered(OfFormat(errs, OverlapFormat))

\* C7: one overlap error per intersecting pair of ranged slaves, earlier name first
C7_OverlapPairs ==
    /\ CheckDone(7) =>
          /\ AllLiteralsOk(config_dict)
          /\ OfFormat(errors, OverlapFormat) = Want7(config_dict)
          /\ SameInReverse(config_dict, errors)
    /\ (HasReturned /\ CheckDone(7)) =>
          OfFormat(result.errors, OverlapFormat) = Want7(config_dict)

\* S1 = [0x0, 0xFF] touches S2 = [0xFF, 0x1FF], which holds S3 = [0x100, 0x1FF];
\* S1 and S3 are disjoint
C7_Witness ==
    /\ HasReturned
    /\ Len(Endpoints(config_dict)) = 3
    /\ \A i \in 1..3 : Endpoints(config_dict)[i].type = "slave"
    /\ Get(Endpoints(config_dict)[1], "addr_range", <<>>) = <<Lit0, LitFF>>
    /\ Get(Endpoints(config_dict)[2], "addr_range", <<>>) = <<LitFF, Lit1FF>>
    /\ Get(Endpoints(config_dict)[3], "addr_range", <<>>) = <<Lit100, Lit1FF>>
    /\ result.errors = <<ErrOverlap("S1", "S2"), ErrOverlap("S2", "S3")>>

(***************************************************************************)
(* C8.  A slave without addr_range gets the check-2 error, once, and       *)
(* takes no part in the overlap check: no overlap error names it, and the  *)
(* overlap errors are those of the document without it.                    *)
(***************************************************************************)
NoRangeFormat == ErrNoAddrRange("")[1]
IsRangeless(ep) == ep.type = "slave" /\ "addr_range" \notin DOMAIN ep
WithoutRangeless(doc) ==
    [doc EXCEPT !.endpoints = SelectSeq(@, LAMBDA ep : ~IsRangeless(ep))]

\* names that only slaves without addr_range carry
RangelessNames(doc) ==
    { Endpoints(doc)[i].name : i \in DOMAIN Endpoints(doc) }
        \ { Endpoints(doc)[i].name :
              i \in {j \in DOMAIN Endpoints(doc) : ~IsRangeless(Endpoints(doc)[j])} }

RangelessOnce(doc, errs) ==
    /\ OfFormat(errs, NoRangeFormat) = Want2(doc)
    /\ \A n \in RangelessNames(doc) :
          Count(OfFormat(errs, NoRangeFormat), ErrNoAddrRange(n))
              = Count(NamesOf(Endpoints(doc)), n)

RangelessLeftOut(doc, errs) ==
    /\ \A e \in Range(OfFormat(errs, OverlapFormat)) :
          e[2] \notin RangelessNames(doc) /\ e[3] \notin RangelessNames(doc)
    /\ "endpoints" \in DOMAIN doc =>
          OfFormat(errs, OverlapFormat) = Check7(WithoutRangeless(doc), <<>>).errors

\* C8: a slave without addr_range gets the check-2 error only and is left out of check 7
C8_RangelessSlave ==
    /\ CheckDone(2) => RangelessOnce(config_dict, errors)
    /\ CheckDone(7) => RangelessLeftOut(config_dict, errors)
    /\ (HasReturned /\ CheckDone(8)) =>
          RangelessOnce(config_dict, result.errors)
              /\ RangelessLeftOut(config_dict, result.errors)

\* S2 has no addr_range and lies between S1 = [0, 10] and S3 = [5, 15]
C8_Witness ==
    /\ HasReturned
    /\ Len(Endpoints(config_dict)) = 3
    /\ IsRangeless(Endpoints(config_dict)[2])
    /\ result.errors = <<ErrNoAddrRange("S2"), ErrOverlap("S1", "S3")>>

(***************************************************************************)
(* C9.  The list of the semantic validator is the errors of check 1, then  *)
(* of check 2, ... then of check 8, each in document order, its length the *)
(* sum of their counts (and after check k, what checks 1..k gave); an      *)
(* undefined-protocol error always comes before an undefined-export error; *)
(* the document of the end-to-end scenario yields exactly those two.       *)
(***************************************************************************)
WantOf(doc, k) ==
    CASE k = 1 -> Want1(doc) [] k = 2 -> Want2(doc) [] k = 3 -> Want3(doc)
      [] k = 4 -> Want4(doc) [] k = 5 -> Want5(doc) [] k = 6 -> Want6(doc)
      [] k = 7 -> Want7(doc) [] k = 8 -> Want8(doc)
WantUpTo(doc, k) == Concat([i \in 1..k |-> WantOf(doc, i)])
RECURSIVE SumLen(_, _)
SumLen(doc, k) == IF k = 0 THEN 0 ELSE SumLen(doc, k - 1) + Len(WantOf(doc, k))

ProtocolFirst(errs) ==
    \A i, j \in DOMAIN errs :
        (errs[i][1] = ErrProtocol("", "")[1] /\ errs[j][1] = ErrExport("")[1]) => i < j

\* where validate stands when check k has just run
PcAfter(k) == IF k = 8 THEN "v_return" ELSE CheckPcs[k + 1]

\* C9: the semantic list is the errors of checks 1..8 in that order
C9_ChecksInOrder ==
    /\ \A k \in 1..8 :
          (schema_errors = <<>> /\ pc = PcAfter(k)) => errors = WantUpTo(config_dict, k)
    /\ (pc = "v_done" /\ result.kind = "raised") => errors = WantUpTo(config_dict, 6)
    /\ (HasReturned /\ CheckDone(8)) =>
          /\ result.errors = WantUpTo(config_dict, 8)
          /\ Len(result.errors) = SumLen(config_dict, 8)
          /\ ProtocolFirst(result.errors)
    /\ (pc = "v_done" /\ config_dict = InvalidDoc) =>
          result = Returned(FALSE, <<ErrProtocol("B", "ahb"), ErrExport("ghost")>>)

\* a document on which every one of the eight checks finds something
C9_Witness ==
    /\ HasReturned
    /\ \A k \in 1..8 : WantOf(config_dict, k) # <<>>
    /\ Len(result.errors) >= 8
    /\ result.errors[1][1] = ErrProtocol("", "")[1]
    /\ result.errors[Len(result.errors)][1] = ErrExport("")[1]

(***************************************************************************)
(* C10.  The returned flag is true iff the returned list is empty, and     *)
(* that iff the document has neither a schema error nor a semantic error;  *)
(* a document with neither (all its address literals being numbers)        *)
(* returns (true, []); text that does not parse returns false with one     *)
(* error, the Schema Gate and the semantic checks not having run.          *)
(***************************************************************************)
IsBadText == request.config.kind = "str" /\ request.config.yaml # "ok"

\* C10: valid iff no errors iff no schema and no semantic error; bad text gives one error
C10_ValidIffNoErrors ==
    /\ HasReturned => (result.valid <=> result.errors = <<>>)
    /\ (HasReturned /\ ~IsBadText) =>
          /\ config_dict = request.config.value
          /\ result.errors = <<>> <=>
                (~HasSchemaError(config_dict) /\ ~HasSemanticError(config_dict))
          /\ result.errors = SchemaErrorsOf(config_dict)
                \o (IF HasSchemaError(config_dict) THEN <<>>
                    ELSE WantUpTo(config_dict, 8))
    /\ (pc = "v_done" /\ ~IsBadText /\ AllLiteralsOk(config_dict)
            /\ ~HasSchemaError(config_dict) /\ ~HasSemanticError(config_dict)) =>
          result = Returned(TRUE, <<>>)
    /\ (route = "direct" /\ IsBadText) =>
          /\ pc \in {"v_parse", "v_done"}
          /\ config_dict = NoDoc /\ schema_errors = <<>> /\ errors = <<>>
          /\ pc = "v_done" =>
                /\ result = Returned(FALSE, <<ErrYaml(request.config.yaml)>>)
                /\ Len(result.errors) = 1

\* a text that parses to a document without any error came back (true, [])
C10_Witness ==
    /\ HasReturned
    /\ request.config.kind = "str"
    /\ config_dict = ValidDoc
    /\ result = Returned(TRUE, <<>>)

(***************************************************************************)
(* C11: the job registry and the exit code of the floogen process          *)
(***************************************************************************)
RunSteps == {"run_begin", "run_config", "run_floogen"}

\* the step with which a call of run ends
RunEnds == pc \in RunSteps /\ pc' = "run_done"

\* the call ends by returning a job record, not an error and not an exception
ReturnsJob ==
    /\ run_result'.kind = "returned"
    /\ "status" \in DOMAIN run_result'.result

\* the record of a run whose process exited with this code
RecordFor(info, id, code) ==
    /\ info.job_id = id
    /\ IF code = 0
       THEN info.status = "completed" /\ "zip_path" \in DOMAIN info
       ELSE info.status = "failed" /\ "zip_path" \notin DOMAIN info

JobIds == {"j1"} \cup Range(GeneratedIds)

\* every record is a completed one with a zip_path or a failed one without
RecordsWellFormed ==
    \A id \in DOMAIN jobs :
        /\ id \in JobIds
        /\ jobs[id].job_id = id
        /\ jobs[id].status \in {"completed", "failed"}
        /\ jobs[id].status = "completed" <=> "zip_path" \in DOMAIN jobs[id]

RegistryStep ==
    /\ jobs' # jobs =>
          /\ pc = "run_floogen"
          /\ ReturnsJob
          /\ returncode' # <<>>
          /\ DOMAIN jobs' = DOMAIN jobs \cup {job_id}
          /\ \A id \in DOMAIN jobs' \ {job_id} : jobs'[id] = jobs[id]
    /\ (RunEnds /\ ReturnsJob) =>
          /\ returncode' # <<>>
          /\ job_id' \in DOMAIN jobs'
          /\ jobs'[job_id'] = run_result'.result
          /\ RecordFor(jobs'[job_id'], job_id', returncode'[1])
          /\ run_result'.success <=> returncode' = <<0>>
    /\ (RunEnds /\ ~ReturnsJob) =>
          /\ jobs' = jobs
          /\ \A id \in JobIds \cup {"nobody"} :
                Get(jobs', id, NoJob) = Get(jobs, id, NoJob)
    /\ (RunEnds /\ returncode' = <<>>) => ~ReturnsJob
    /\ RecordsWellFormed'

\* C11: the registry changes only when a run got an exit code, and then only the record of its job_id, completed with a zip_path iff the code was 0, failed otherwise; a run that ends any other way leaves every get_job_info as it was
C11_RegistryFollowsExitCode == [][RegistryStep]_vars

\* a run of job "j1" has just timed out with an earlier completed record of "j1"
\* and a failed record of a generated job in the registry, both untouched
C11_Witness ==
    /\ route = "run"
    /\ pc = "run_done"
    /\ job_id = "j1"
    /\ returncode = <<>>
    /\ run_result = RunFailure("floogen execution timed out")
    /\ DOMAIN jobs = {"j1", "job_1"}
    /\ jobs["j1"] = CompletedJob("j1")
    /\ jobs["job_1"] = FailedJob("job_1", 2)

=============================================================================
